---- MODULE Spec2Model ----
(***************************************************************************)
(* expire-fs: the Entry tree (ExpireEntry), its cascading delete, and the  *)
(* two eviction policies of ExpireFS (_expire, _pressure) composed by      *)
(* clean().  Storage is a map from existing paths to their stat result;    *)
(* a path is the sequence of names below the watched folder, so the        *)
(* watched folder itself is the empty sequence.                            *)
(***************************************************************************)
EXTENDS Integers, Sequences, FiniteSets, TLC

(* ------------------------------ bounds -------------------------------- *)
MaxTime == 3
MaxSize == 2
MaxCycles == 2
MaxRuns == 2
MaxHandles == 2

(* ------------------------- the path universe -------------------------- *)
Root == <<>>
DirPaths == {<<"a">>, <<"a", "b">>}
FilePaths == {<<"f">>, <<"a", "g">>, <<"a", "b", "h">>}
NameOrder == <<"a", "b", "f", "g", "h">>
Names == {NameOrder[k] : k \in 1..Len(NameOrder)}

\* path.basename(this._path)
basename(p) == p[Len(p)]
\* the directory part of a path: the path of entry._parent
dirname(p) == SubSeq(p, 1, Len(p) - 1)
\* path.join(this.path, name)
join(p, name) == Append(p, name)

DirStat == [isDir |-> TRUE, size |-> 0, time |-> 1]
FileStat(sz, tm) == [isDir |-> FALSE, size |-> sz, time |-> tm]

\* Date.now(), later than every timestamp of the tree
Now == MaxTime + 1
\* disk.total of the disk-usage provider
DiskTotal == 4 * MaxSize

EmptyFn == [x \in {} |-> x]
Range(s) == {s[k] : k \in DOMAIN s}

(* ----------------------------- variables ------------------------------ *)
VARIABLES
  fs,          \* storage: existing path -> stat result
  otherUsed,   \* bytes used on the disk outside the watched folder
  failing,     \* paths whose unlink/rmdir fails with an I/O error
  statFailing, \* paths whose stat fails with an I/O error
  vanished,    \* paths a listing still names although they are gone
  cfg,         \* the ExpireFS options
  stats,       \* entry path -> entry._stats (absent while _stats is null)
  children,    \* entry path -> keys of entry._children, in insertion order
  pc,          \* position inside clean()
  dry,         \* the dry argument of the clean() in flight
  list,        \* _expire: const list = entry.list()
  i,           \* _expire: loop index (1-based)
  deleted,     \* _expire: const deleted = []
  plist,       \* _pressure: const list, after the sort
  pdeleted,    \* _pressure: const deleted = []
  disk,        \* _pressure: const disk
  toFree,      \* _pressure: let toFree
  returned,    \* the value the last completed clean() resolved with
  cycle,       \* number of clean() calls finished
  emitted,     \* 'clean' events emitted by the latest clean()
  rmLog,       \* unlink/rmdir calls issued by the clean() in flight
  fs0,         \* storage when the latest clean() started
  outcome,     \* how the last clean() ended: "none", "resolved", "rejected"
  pstart,      \* storage, children and entry.list() when _pressure started
  prev,        \* dry flag, start storage and result of the clean() before
  ctor,        \* the constructor call: "none", "ok", "thrown"
  opts,        \* the options the constructor is called with
  interval,    \* this._interval: 0 for null, else the handle of the timer
  timers,      \* handles scheduled by setInterval and not cleared
  handles,     \* number of handles setInterval has handed out
  runs,        \* the clean() invocations, in the order they were called
  lastCall,    \* the latest start()/stop() call, its result, the state before
  listener,    \* an 'error' listener is registered on the instance
  task,        \* entry path -> the delete() invoked on that entry
  called,      \* the delete() the application called on an entry
  parent,      \* entry path -> path of entry._parent (absent when null)
  listFailing, \* directories whose readdir fails with an I/O error
  ptask        \* entry path -> how far the populate() of that entry is

\* what a clean() reads and writes
cleanVars == <<fs, otherUsed, failing, statFailing, vanished, cfg, stats,
               children, pc, dry, list, i, deleted, plist, pdeleted, disk,
               toFree, returned, cycle, emitted, rmLog, fs0, outcome, pstart,
               prev>>
\* what the constructor, start(), stop() and the timer read and write
timerVars == <<ctor, opts, interval, timers, handles, runs, lastCall,
               listener>>
\* what a delete() called on an entry of a listed tree reads and writes,
\* besides storage and the tree
deleteVars == <<task, called, parent>>
\* what populate() reads and writes, besides storage and the tree
populateVars == <<listFailing, ptask>>
vars == <<cleanVars, timerVars, deleteVars, populateVars>>

(* ------------------------- storage provider --------------------------- *)
RECURSIVE SumSizes(_, _)
SumSizes(S, f) ==
  IF S = {} THEN 0
  ELSE LET p == CHOOSE q \in S : TRUE
       IN f[p].size + SumSizes(S \ {p}, f)

\* bytes in use: what lies below the watched folder plus the rest of the disk
UsedBytes(f) == otherUsed + SumSizes(DOMAIN f, f)

\* mutation: the sample reports the used bytes as the available ones
diskusageSwapped(f) == [total |-> DiskTotal, available |-> UsedBytes(f)]

\* diskusage.check(path): {available, total}
diskusage(f) == [total |-> DiskTotal, available |-> DiskTotal - UsedBytes(f)]

\* fs.readdir(dirname): the names directly below p, in directory order; the
\* listing is taken before the paths of `vanished` were removed
RECURSIVE SelectNames(_, _, _)
SelectNames(names, p, f) ==
  IF names = <<>> THEN <<>>
  ELSE IF join(p, Head(names)) \in DOMAIN f \cup vanished
       THEN <<Head(names)>> \o SelectNames(Tail(names), p, f)
       ELSE SelectNames(Tail(names), p, f)
readdir(p, f) == SelectNames(NameOrder, p, f)

\* fs.stat(filename) rejects: missing (ENOENT) or an I/O error
statFails(p, f) == p \notin DOMAIN f \/ p \in statFailing
\* this._get_list(this._path) rejects
readdirFails(p, f) == p \in listFailing
\* fs.unlink(filename) rejects
unlinkFails(p, f) == p \notin DOMAIN f \/ p \in failing
\* fs.rmdir(filename) rejects: missing, not empty, or an I/O error
rmdirFails(p, f) ==
  \/ p \notin DOMAIN f
  \/ \E q \in DOMAIN f : q # Root /\ dirname(q) = p
  \/ p \in failing
RemovePath(p, f) == [q \in DOMAIN f \ {p} |-> f[q]]

(* ----------------------------- ExpireEntry ---------------------------- *)
\* get childrenValues(), as paths
childrenValues(p, ch) == [k \in 1..Len(ch[p]) |-> join(p, ch[p][k])]
\* get hasChildren()
hasChildren(p, ch) == Len(ch[p]) # 0
\* get isDir()
isDir(p) == stats[p].isDir
\* getTime(this.timeType)
getTime(p) == stats[p].time
\* get size()
size(p) == stats[p].size

\* populate(): t = [stats, children] of the entries built so far
RECURSIVE populate(_, _, _), populateAll(_, _, _)
populate(p, f, t) ==
  LET t0 == [t EXCEPT !.children = (p :> <<>>) @@ @]
  IN IF statFails(p, f) THEN t0
     ELSE LET t1 == [t0 EXCEPT !.stats = (p :> f[p]) @@ @]
          IN IF ~f[p].isDir THEN t1
             ELSE IF readdirFails(p, f) THEN t1
             ELSE LET names == readdir(p, f)
                      t2 == [t1 EXCEPT !.children = (p :> names) @@ @]
                  IN populateAll(childrenValues(p, t2.children), f, t2)
populateAll(ps, f, t) ==
  IF ps = <<>> THEN t
  ELSE populateAll(Tail(ps), f, populate(Head(ps), f, t))

\* mutation: populate() does not wait for the populate() of the children
populatedAtOnce(p, pt, ch) == TRUE

\* Promise.all(entries.map(e => e.populate())) has resolved
populated(p, pt, ch) ==
  \A k \in 1..Len(ch[p]) : pt[join(p, ch[p][k])] = "done"

\* mutation: a child is constructed with the parent of the populating entry
parentLinksOfParent(ch) ==
  [c \in UNION {Range(childrenValues(p, ch)) : p \in DOMAIN ch} |->
     dirname(CHOOSE p \in DOMAIN ch : c \in Range(childrenValues(p, ch)))]

\* new ExpireEntry({..., parent: this}) for every name of the listing: the
\* entry that registered c in its children; the root is built with null
parentLinks(ch) ==
  [c \in UNION {Range(childrenValues(p, ch)) : p \in DOMAIN ch} |->
     CHOOSE p \in DOMAIN ch : c \in Range(childrenValues(p, ch))]

\* traverse(callback) collecting, i.e. list(): pre-order, the entry excluded
RECURSIVE traverse(_, _, _), traverseFrom(_, _, _)
traverse(p, st, ch) == traverseFrom(childrenValues(p, ch), st, ch)
\* mutation: a directory's entries are collected after its later siblings
traverseFromSiblingsFirst(cs, st, ch) ==
  IF cs = <<>> THEN <<>>
  ELSE LET c == Head(cs)
       IN <<c>> \o traverseFrom(Tail(cs), st, ch)
               \o (IF st[c].isDir THEN traverse(c, st, ch) ELSE <<>>)
traverseFrom(cs, st, ch) ==
  IF cs = <<>> THEN <<>>
  ELSE LET c == Head(cs)
       IN <<c>> \o (IF st[c].isDir THEN traverse(c, st, ch) ELSE <<>>)
               \o traverseFrom(Tail(cs), st, ch)

\* list() throws: traverse reads c.isDir of a child whose _stats is null
RECURSIVE traverseThrows(_, _, _)
traverseThrows(p, st, ch) ==
  \E k \in 1..Len(ch[p]) :
    LET c == join(p, ch[p][k])
    IN IF c \notin DOMAIN st THEN TRUE
       ELSE st[c].isDir /\ traverseThrows(c, st, ch)

\* this.parent.children.delete(this.basename)
detach(p, ch) ==
  [ch EXCEPT ![dirname(p)] = SelectSeq(@, LAMBDA n : n # basename(p))]

\* mutation: the dry flag is ignored
callsStorageAlways(isDry) == TRUE

\* dry ? console.log(...) : this._rm_dir / this._rm_file (...)
callsStorage(isDry) == ~isDry

\* mutation: the parent is deleted without looking at its other children
parentCollapsesAlways(p, keepEmptyParent, ch) == ~keepEmptyParent

\* !keepEmptyParent && this.parent.children.size === 0
parentCollapses(p, keepEmptyParent, ch) ==
  ~keepEmptyParent /\ Len(ch[dirname(p)]) = 0

\* mutation: the catch block does not return
returnsFromCatchNever(fails) == FALSE

\* catch (e) { console.warn(...); return; }
returnsFromCatch(fails) == fails

\* mutation: the children are deleted with the flag of the directory
childKeepEmptyParentInherited(keepEmptyParent) == keepEmptyParent

\* child.delete({ keepEmptyParent: true, dry })
childKeepEmptyParent(keepEmptyParent) == TRUE

\* delete({keepEmptyParent, dry}) on d = [children, fs, log]
RECURSIVE delete(_, _, _, _), deleteAll(_, _, _, _)
delete(p, keepEmptyParent, isDry, d) ==
  LET d1 == IF isDir(p)
            THEN deleteAll(childrenValues(p, d.children),
                           childKeepEmptyParent(keepEmptyParent), isDry, d)
            ELSE d
      attempt == IF isDir(p) THEN ~keepEmptyParent ELSE TRUE
      call == attempt /\ callsStorage(isDry)
      fails == call /\ (IF isDir(p) THEN rmdirFails(p, d1.fs)
                                   ELSE unlinkFails(p, d1.fs))
      d2 == [d1 EXCEPT !.log = IF call THEN Append(@, p) ELSE @,
                       !.fs = IF call /\ ~fails THEN RemovePath(p, @) ELSE @]
  IN IF returnsFromCatch(fails) THEN d2
     ELSE IF p = Root THEN d2
     ELSE LET d3 == [d2 EXCEPT !.children = detach(p, @)]
          IN IF parentCollapses(p, keepEmptyParent, d3.children)
             THEN delete(dirname(p), keepEmptyParent, isDry, d3)
             ELSE d3
deleteAll(ps, keepEmptyParent, isDry, d) ==
  IF ps = <<>> THEN d
  ELSE deleteAll(Tail(ps), keepEmptyParent, isDry,
                 delete(Head(ps), keepEmptyParent, isDry, d))

(* ------------- ExpireEntry.delete, one step per await ------------------ *)
\* no delete() was invoked on the entry
NoTask ==
  [st |-> "none", keepEmptyParent |-> TRUE, awaited |-> <<>>, entered |-> 0]
\* the application has not called delete()
NoDelete ==
  [active |-> FALSE, target |-> Root, keepEmptyParent |-> TRUE,
   children |-> EmptyFn, fs |-> EmptyFn]

\* the part of p.delete({keepEmptyParent, dry}) that runs before its first
\* await, on r = [task, log]: a directory maps its childrenValues to their
\* own delete() and awaits Promise.all of them, a file calls _rm_file and
\* awaits it
\* `entered` counts the delete() calls made on the entry
RECURSIVE invoke(_, _, _, _, _), invokeAll(_, _, _, _, _)
invoke(p, keepEmptyParent, isDry, ch, r) ==
  IF isDir(p)
  THEN invokeAll(childrenValues(p, ch), childKeepEmptyParent(keepEmptyParent),
                 isDry, ch,
                 [r EXCEPT !.task[p] =
                    [st |-> "children", keepEmptyParent |-> keepEmptyParent,
                     awaited |-> childrenValues(p, ch),
                     entered |-> @.entered + 1]])
  ELSE [task |-> [r.task EXCEPT ![p] =
                    [st |-> "removing", keepEmptyParent |-> keepEmptyParent,
                     awaited |-> <<>>, entered |-> @.entered + 1]],
        log |-> IF callsStorage(isDry) THEN Append(r.log, p) ELSE r.log]
invokeAll(ps, keepEmptyParent, isDry, ch, r) ==
  IF ps = <<>> THEN r
  ELSE invokeAll(Tail(ps), keepEmptyParent, isDry, ch,
                 invoke(Head(ps), keepEmptyParent, isDry, ch, r))

\* mutation: the directory does not wait for its children's delete()
joinedAtOnce(p, tk) == TRUE

\* Promise.all of the children's delete() has resolved
joined(p, tk) ==
  \A k \in 1..Len(tk[p].awaited) : tk[tk[p].awaited[k]].st = "done"

\* delete() past its removal, on r = [task, children, log]: detach from the
\* parent, and call the parent's delete() when the parent collapses
afterRemoval(p, isDry, r) ==
  IF p = Root THEN [r EXCEPT !.task[p].st = "done"]
  ELSE LET ch == detach(p, r.children)
           keep == r.task[p].keepEmptyParent
       IN IF parentCollapses(p, keep, ch)
          THEN LET v == invoke(dirname(p), keep, isDry, ch,
                               [task |-> [r.task EXCEPT ![p].st = "cascade"],
                                log |-> r.log])
               IN [task |-> v.task, children |-> ch, log |-> v.log]
          ELSE [r EXCEPT !.task[p].st = "done", !.children = ch]

(* ------------------------------ ExpireFS ------------------------------ *)
\* this.filter.test(path) for the RegExp filters of FilterChoices
filterTest(filter, p) == basename(p) \in filter

\* mutation: <= in place of <, an age equal to expire is kept
youngerThanOrEqual(age, expire) == expire.infinite \/ age <= expire.ms
\* mutation: an unbounded expire is read as no lifetime at all
youngerThanFinite(age, expire) == age < expire.ms

\* Date.now() - time.getTime() < this.expire
youngerThan(age, expire) == expire.infinite \/ age < expire.ms

\* _shouldDelete(path, stats)
shouldDelete(p) ==
  IF ~filterTest(cfg.filter, p) THEN FALSE
  ELSE IF youngerThan(Now - getTime(p), cfg.expire) THEN FALSE
  ELSE TRUE

\* mutation: the comparator is a - b, the list is sorted oldest first
RECURSIVE insertOldestFirst(_, _)
insertOldestFirst(x, s) ==
  IF s = <<>> THEN <<x>>
  ELSE IF stats[Head(s)].time < stats[x].time
       THEN <<Head(s)>> \o insertOldestFirst(x, Tail(s))
       ELSE <<x>> \o s

\* list.sort((a, b) => b.getTime() - a.getTime()): newest first, stable
RECURSIVE insertNewestFirst(_, _), sortNewestFirst(_)
insertNewestFirst(x, s) ==
  IF s = <<>> THEN <<x>>
  ELSE IF getTime(Head(s)) > getTime(x)
       THEN <<Head(s)>> \o insertNewestFirst(x, Tail(s))
       ELSE <<x>> \o s
sortNewestFirst(s) ==
  IF s = <<>> THEN <<>>
  ELSE insertNewestFirst(Head(s), sortNewestFirst(Tail(s)))

\* mutation: the loop goes on while toFree >= 0
loopContinuesAtZero(l, tf) == Len(l) # 0 /\ tf >= 0

\* mutation: the loop runs until the list is exhausted
loopContinuesToTheEnd(l, tf) == Len(l) # 0

\* while (list.length && toFree > 0)
loopContinues(l, tf) == Len(l) # 0 /\ tf > 0

\* mutation: toFree is taken from the available bytes, not the used ones
initialToFreeOfAvailable(dk, pressure) ==
  dk.available - (dk.total * pressure.num) \div pressure.den

\* usagePerc < this.pressure, with usagePerc = 1 - available / total
belowPressure(dk, pressure) ==
  (dk.total - dk.available) * pressure.den < pressure.num * dk.total
\* (disk.total - disk.available) - disk.total * this.pressure
\* (disk.total is a multiple of every denominator used, so this is exact)
initialToFree(dk, pressure) ==
  (dk.total - dk.available) - (dk.total * pressure.num) \div pressure.den

\* mutation: the item is read and left in the list
popNothing(l) == l

\* list.pop(): the list without its last item
pop(l) == SubSeq(l, 1, Len(l) - 1)

\* mutation: _pressure passes over what _shouldDelete would keep
discardsUnselected(item) == isDir(item) \/ ~shouldDelete(item)

\* if (item.isDir) continue
discards(item) == isDir(item)

\* mutation: the loop samples the disk again before it subtracts
toFreeResampled(tf, item) ==
  initialToFree(diskusage(fs), cfg.pressure) - size(item)

\* toFree -= item.size
toFreeAfter(tf, item) == tf - size(item)

\* mutation: the removeEmptyDirs option is not looked at
removesEmptyDirAlways(removeEmptyDirs, e, ch) ==
  isDir(e) /\ ~hasChildren(e, ch)

\* this.removeEmptyDirs && e.isDir && !e.hasChildren
removesEmptyDir(removeEmptyDirs, e, ch) ==
  removeEmptyDirs /\ isDir(e) /\ ~hasChildren(e, ch)

\* mutation: _pressure is started without awaiting _expire
expireReturnedAtOnce(idx, l) == TRUE

\* await this._expire({dry, entry}): the for loop of _expire has ended
expireReturned(idx, l) == idx > Len(l)

\* mutation: clean() returns without emitting
emitNothing(n) == n

\* this.emit('clean', deleted)
emitClean(n) == n + 1

(* --------------------- constructor, start(), stop() ------------------- *)
validTimeTypes == {"atime", "mtime", "ctime", "birthtime"}

\* this.folder.split(path.sep).length for an absolute folder given by its
\* names below "/": "/" splits into two empty strings, "/x" into "" and "x"
segments(folder) == IF folder.names = <<>> THEN 2 ELSE Len(folder.names) + 1

\* mutation: autoStart is served before the options are validated
constructorStartsFirst(o) ==
  [thrown |-> \/ ~o.folder.given
              \/ (~o.unsafe /\ segments(o.folder) <= 2)
              \/ o.timeType \notin validTimeTypes,
   started |-> o.autoStart]

\* constructor(options): does it throw, does it call this.start()
constructor(o) ==
  IF ~o.folder.given THEN [thrown |-> TRUE, started |-> FALSE]
  ELSE IF ~o.unsafe /\ segments(o.folder) <= 2
       THEN [thrown |-> TRUE, started |-> FALSE]
  ELSE IF o.timeType \notin validTimeTypes
       THEN [thrown |-> TRUE, started |-> FALSE]
  ELSE [thrown |-> FALSE, started |-> o.autoStart]

\* the default of the constructor's dry option
defaultDry == TRUE

\* this.dry = dry, after the options are destructured with their defaults
thisDry(o) == IF o.dry.given THEN o.dry.value ELSE defaultDry

\* clean({ dry = this.dry } = {}): the dry that _expire and _pressure receive
cleanDry(arg, o) == IF arg.given THEN arg.value ELSE thisDry(o)

\* mutation: start() does not look at this._interval
alreadyStartedNever(iv) == FALSE

\* if (this._interval) return false
alreadyStarted(iv) == iv # 0

\* start() on [interval, timers, handles]; setInterval hands out a new handle
start(t) ==
  IF alreadyStarted(t.interval) THEN [t EXCEPT !.result = FALSE]
  ELSE [result |-> TRUE, interval |-> t.handles + 1,
        timers |-> t.timers \cup {t.handles + 1}, handles |-> t.handles + 1]

\* mutation: stop() forgets the handle without clearing it
clearIntervalNothing(tm, h) == tm

\* clearInterval(this._interval)
clearInterval(tm, h) == tm \ {h}

\* stop() on [interval, timers, handles]
stop(t) ==
  IF t.interval = 0 THEN [t EXCEPT !.result = FALSE]
  ELSE [result |-> TRUE, interval |-> 0,
        timers |-> clearInterval(t.timers, t.interval), handles |-> t.handles]

\* a clean() invocation that was just called
NewRun(by) ==
  [by |-> by, phase |-> "list", cleanEvents |-> 0, errorEvents |-> 0,
   escaped |-> FALSE, sawStop |-> FALSE]

\* clean() moves past an await; after _pressure it emits 'clean' and returns
advance(r) ==
  IF r.phase = "list" THEN [r EXCEPT !.phase = "expire"]
  ELSE IF r.phase = "expire" THEN [r EXCEPT !.phase = "pressure"]
  ELSE [r EXCEPT !.phase = "resolved", !.cleanEvents = emitClean(@)]

\* clean() rejects; in the timer callback catch (e) { this.emit('error', e) }:
\* an EventEmitter without 'error' listener throws the error out of emit
reject(r, hasListener) ==
  IF r.by # "timer" THEN [r EXCEPT !.phase = "rejected"]
  ELSE IF hasListener
       THEN [r EXCEPT !.phase = "rejected", !.errorEvents = @ + 1]
       ELSE [r EXCEPT !.phase = "rejected", !.escaped = TRUE]

(* ------------------------------- inputs ------------------------------- *)
Shapes ==
  {S \in SUBSET (DirPaths \cup FilePaths) :
     \A p \in S : dirname(p) = Root \/ dirname(p) \in S}
\* "f" is a small recent file; the other files take every size and timestamp
RecentFiles == {<<"f">>}
Storages ==
  UNION {
    {[p \in S \cup {Root} |->
        IF p \in RecentFiles THEN FileStat(1, MaxTime)
        ELSE IF p \in FilePaths THEN FileStat(sz[p], tm[p])
        ELSE DirStat] :
       sz \in [(S \cap FilePaths) \ RecentFiles -> 1..MaxSize],
       tm \in [(S \cap FilePaths) \ RecentFiles -> 1..MaxTime]} : S \in Shapes}
FilterChoices == {Names, {"f", "h"}}
ExpireChoices ==
  {[infinite |-> TRUE, ms |-> 0], [infinite |-> FALSE, ms |-> MaxTime - 1]}
PressureChoices == {[num |-> 1, den |-> 1], [num |-> 1, den |-> 2]}
Configs ==
  [filter : FilterChoices, expire : ExpireChoices, pressure : PressureChoices,
   removeEmptyDirs : BOOLEAN, removeCleanedDirs : BOOLEAN]
NoStart == [fs |-> EmptyFn, children |-> EmptyFn, list |-> <<>>]

Folders ==
  {[given |-> FALSE, names |-> <<>>], [given |-> TRUE, names |-> <<>>],
   [given |-> TRUE, names |-> <<"tmp">>],
   [given |-> TRUE, names |-> <<"tmp", "cache">>]}
TimeTypes == {"birthtime", "created"}
\* an option or argument that is left out, or given as true or false
NotGiven == [given |-> FALSE, value |-> FALSE]
DryChoices == {NotGiven} \cup [given : {TRUE}, value : BOOLEAN]
Options ==
  [folder : Folders, unsafe : BOOLEAN, timeType : TimeTypes,
   autoStart : BOOLEAN, dry : {NotGiven}]
\* a valid folder, autoStart = false, the other options left out
ManualOptions ==
  [folder |-> [given |-> TRUE, names |-> <<"tmp", "cache">>],
   unsafe |-> FALSE, timeType |-> "birthtime", autoStart |-> FALSE,
   dry |-> NotGiven]
NoCall == [op |-> "none", result |-> FALSE, interval |-> 0, timers |-> {}]

(* -------------------------------- Init -------------------------------- *)
\* no clean() has been called yet
InitCycle ==
  /\ fs \in Storages
  /\ otherUsed \in {0, DiskTotal - SumSizes(DOMAIN fs, fs)}
  /\ cfg \in Configs
  /\ stats = EmptyFn
  /\ children = EmptyFn
  /\ pc = "idle"
  /\ dry = FALSE
  /\ list = <<>>
  /\ i = 1
  /\ deleted = <<>>
  /\ plist = <<>>
  /\ pdeleted = <<>>
  /\ disk = [total |-> DiskTotal, available |-> DiskTotal]
  /\ toFree = 0
  /\ returned = <<>>
  /\ cycle = 0
  /\ emitted = 0
  /\ rmLog = <<>>
  /\ fs0 = fs
  /\ outcome = "none"
  /\ pstart = NoStart
  /\ prev = [outcome |-> "none", dry |-> FALSE, fs0 |-> fs, returned |-> <<>>]
  /\ task = EmptyFn
  /\ called = NoDelete
  /\ parent = EmptyFn
  /\ ptask = EmptyFn

\* an instance built with autoStart = false, cleaned by clean() calls
InitInstance ==
  /\ InitCycle
  /\ ctor = "ok"
  /\ interval = 0
  /\ timers = {}
  /\ handles = 0
  /\ runs = <<>>
  /\ lastCall = NoCall
  /\ listener = FALSE

InitCommon == InitInstance /\ opts = ManualOptions

Init ==
  /\ InitCommon
  /\ failing = {}
  /\ statFailing = {}
  /\ listFailing = {}
  /\ vanished = {}

(* ------------------------------- actions ------------------------------ *)
\* clean({dry}): const entry = await this.list(), then _expire's entry.list()
Clean(d) ==
  /\ pc = "idle"
  /\ cycle < MaxCycles
  /\ LET t == populate(Root, fs, [stats |-> EmptyFn, children |-> EmptyFn])
     IN /\ ~traverseThrows(Root, t.stats, t.children)
        /\ stats' = t.stats
        /\ children' = t.children
        /\ list' = traverse(Root, t.stats, t.children)
  /\ dry' = d
  /\ vanished' = {}
  /\ emitted' = 0
  /\ i' = 1
  /\ deleted' = <<>>
  /\ plist' = <<>>
  /\ pdeleted' = <<>>
  /\ pstart' = NoStart
  /\ toFree' = 0
  /\ rmLog' = <<>>
  /\ fs0' = fs
  /\ prev' = [outcome |-> outcome, dry |-> dry, fs0 |-> fs0,
              returned |-> returned]
  /\ pc' = "expire"
  /\ UNCHANGED <<fs, otherUsed, failing, statFailing, cfg, disk, returned,
                 cycle, outcome>>
  /\ UNCHANGED <<timerVars, deleteVars, populateVars>>

\* clean({dry}) when a populated entry has no _stats: entry.list() throws in
\* _expire and clean() rejects
CleanThrow(d) ==
  /\ pc = "idle"
  /\ cycle < MaxCycles
  /\ LET t == populate(Root, fs, [stats |-> EmptyFn, children |-> EmptyFn])
     IN /\ traverseThrows(Root, t.stats, t.children)
        /\ stats' = t.stats
        /\ children' = t.children
  /\ list' = <<>>
  /\ dry' = d
  /\ vanished' = {}
  /\ emitted' = 0
  /\ i' = 1
  /\ deleted' = <<>>
  /\ plist' = <<>>
  /\ pdeleted' = <<>>
  /\ pstart' = NoStart
  /\ toFree' = 0
  /\ rmLog' = <<>>
  /\ fs0' = fs
  /\ prev' = [outcome |-> outcome, dry |-> dry, fs0 |-> fs0,
              returned |-> returned]
  /\ outcome' = "rejected"
  /\ cycle' = cycle + 1
  /\ UNCHANGED <<fs, otherUsed, failing, statFailing, cfg, pc, disk,
                 returned>>
  /\ UNCHANGED <<timerVars, deleteVars, populateVars>>

\* one iteration of the for loop of _expire
ExpireVisit ==
  /\ pc = "expire"
  /\ i <= Len(list)
  /\ LET e == list[i]
         d0 == [children |-> children, fs |-> fs, log |-> rmLog]
         emptyDir == removesEmptyDir(cfg.removeEmptyDirs, e, children)
         d1 == IF emptyDir
               THEN delete(e, ~cfg.removeCleanedDirs, dry, d0)
               ELSE d0
         del1 == IF emptyDir THEN Append(deleted, e) ELSE deleted
         expired == ~isDir(e) /\ shouldDelete(e)
         d2 == IF expired
               THEN delete(e, ~cfg.removeCleanedDirs, dry, d1)
               ELSE d1
         del2 == IF expired THEN Append(del1, e) ELSE del1
     IN /\ children' = d2.children
        /\ fs' = d2.fs
        /\ rmLog' = d2.log
        /\ deleted' = del2
  /\ i' = i + 1
  /\ UNCHANGED <<otherUsed, failing, statFailing, vanished, cfg, stats, pc,
                 dry, list, plist, pdeleted, disk, toFree, returned, cycle,
                 emitted, fs0, outcome, pstart, prev>>
  /\ UNCHANGED <<timerVars, deleteVars, populateVars>>

\* _pressure up to the while loop: list, disk sample, threshold test, sort
PressureStart ==
  /\ pc = "expire"
  /\ expireReturned(i, list)
  /\ Root \in DOMAIN fs
  /\ LET l == traverse(Root, stats, children)
         dk == diskusage(fs)
     IN /\ pstart' = [fs |-> fs, children |-> children, list |-> l]
        /\ disk' = dk
        /\ IF belowPressure(dk, cfg.pressure)
           THEN /\ pc' = "return"
                /\ UNCHANGED <<plist, toFree>>
           ELSE /\ pc' = "pressure"
                /\ toFree' = initialToFree(dk, cfg.pressure)
                /\ plist' = sortNewestFirst(l)
  /\ pdeleted' = <<>>
  /\ UNCHANGED <<fs, otherUsed, failing, statFailing, vanished, cfg, stats,
                 children, dry, list, i, deleted, returned, cycle, emitted,
                 rmLog, fs0, outcome, prev>>
  /\ UNCHANGED <<timerVars, deleteVars, populateVars>>

\* diskusage.check rejects for a folder that is gone: clean() rejects
PressureThrow ==
  /\ pc = "expire"
  /\ expireReturned(i, list)
  /\ Root \notin DOMAIN fs
  /\ pc' = "idle"
  /\ cycle' = cycle + 1
  /\ outcome' = "rejected"
  /\ UNCHANGED <<fs, otherUsed, failing, statFailing, vanished, cfg, stats,
                 children, dry, list, i, deleted, plist, pdeleted, disk,
                 toFree, returned, emitted, rmLog, fs0, pstart, prev>>
  /\ UNCHANGED <<timerVars, deleteVars, populateVars>>

\* one iteration of the while loop of _pressure
PressureStep ==
  /\ pc = "pressure"
  /\ loopContinues(plist, toFree)
  /\ LET item == plist[Len(plist)]
     IN /\ plist' = pop(plist)
        /\ IF discards(item)
           THEN UNCHANGED <<toFree, children, fs, rmLog, pdeleted>>
           ELSE LET d == delete(item, ~cfg.removeCleanedDirs, dry,
                                [children |-> children, fs |-> fs,
                                 log |-> rmLog])
                IN /\ toFree' = toFreeAfter(toFree, item)
                   /\ children' = d.children
                   /\ fs' = d.fs
                   /\ rmLog' = d.log
                   /\ pdeleted' = Append(pdeleted, item)
  /\ UNCHANGED <<otherUsed, failing, statFailing, vanished, cfg, stats, pc,
                 dry, list, i, deleted, disk, returned, cycle, emitted, fs0,
                 outcome, pstart, prev>>
  /\ UNCHANGED <<timerVars, deleteVars, populateVars>>

\* the while loop of _pressure ends
PressureEnd ==
  /\ pc = "pressure"
  /\ ~loopContinues(plist, toFree)
  /\ pc' = "return"
  /\ UNCHANGED <<fs, otherUsed, failing, statFailing, vanished, cfg, stats,
                 children, dry, list, i, deleted, plist, pdeleted, disk,
                 toFree, returned, cycle, emitted, rmLog, fs0, outcome,
                 pstart, prev>>
  /\ UNCHANGED <<timerVars, deleteVars, populateVars>>

\* clean(): emit('clean', deleted); return deleted
CleanReturn ==
  /\ pc = "return"
  /\ emitted' = emitClean(emitted)
  /\ returned' = deleted \o pdeleted
  /\ outcome' = "resolved"
  /\ cycle' = cycle + 1
  /\ pc' = "idle"
  /\ UNCHANGED <<fs, otherUsed, failing, statFailing, vanished, cfg, stats,
                 children, dry, list, i, deleted, plist, pdeleted, disk,
                 toFree, rmLog, fs0, pstart, prev>>
  /\ UNCHANGED <<timerVars, deleteVars, populateVars>>

Next ==
  \/ \E d \in BOOLEAN : Clean(d)
  \/ ExpireVisit
  \/ PressureStart
  \/ PressureThrow
  \/ PressureEnd
  \/ PressureStep
  \/ CleanReturn

Spec == Init /\ [][Next]_vars

(* ---------------- cycles of clean() called without dry ---------------- *)
\* the instance is built with the dry option left out, true or false
InitDefault ==
  /\ InitInstance
  /\ opts \in {[ManualOptions EXCEPT !.dry = o] : o \in DryChoices}
  /\ failing = {}
  /\ statFailing = {}
  /\ listFailing = {}
  /\ vanished = {}

\* this.clean(), as the timer callback and an application call it
CleanNoArgument == Clean(cleanDry(NotGiven, opts))

NextDefault ==
  \/ CleanNoArgument
  \/ ExpireVisit
  \/ PressureStart
  \/ PressureThrow
  \/ PressureEnd
  \/ PressureStep
  \/ CleanReturn

SpecDefault == InitDefault /\ [][NextDefault]_vars

(* ------------- delete() called on an entry of a listed tree ----------- *)
\* storages that differ in shape only
ShapeStorages ==
  {f \in Storages :
     \A q \in (DOMAIN f \cap FilePaths) \ RecentFiles :
       f[q].size = 1 /\ f[q].time = 1}

InitDelete ==
  /\ InitCommon
  /\ fs \in ShapeStorages
  /\ otherUsed = 0
  /\ cfg = [filter |-> Names, expire |-> [infinite |-> TRUE, ms |-> 0],
            pressure |-> [num |-> 1, den |-> 1], removeEmptyDirs |-> FALSE,
            removeCleanedDirs |-> TRUE]
  /\ failing \in {{}} \cup {{q} : q \in DOMAIN fs}
  /\ statFailing = {}
  /\ listFailing = {}
  /\ vanished = {}

\* const entry = await expireFS.list()
List ==
  /\ pc = "idle"
  /\ Root \notin DOMAIN stats
  /\ LET t == populate(Root, fs, [stats |-> EmptyFn, children |-> EmptyFn])
     IN /\ stats' = t.stats
        /\ children' = t.children
        /\ task' = [q \in DOMAIN t.stats |-> NoTask]
        /\ parent' = parentLinks(t.children)
  /\ UNCHANGED <<fs, otherUsed, failing, statFailing, vanished, cfg, pc, dry,
                 list, i, deleted, plist, pdeleted, disk, toFree, returned,
                 cycle, emitted, rmLog, fs0, outcome, pstart, prev, called>>
  /\ UNCHANGED <<timerVars, populateVars>>

\* the application calls p.delete({keepEmptyParent: k, dry: d}) on an entry
\* of the tree: everything up to the first await of every delete() invoked
DeleteCall(p, k, d) ==
  /\ ~called.active
  /\ p \in DOMAIN stats
  /\ LET r == invoke(p, k, d, children, [task |-> task, log |-> rmLog])
     IN /\ task' = r.task
        /\ rmLog' = r.log
  /\ dry' = d
  /\ called' = [active |-> TRUE, target |-> p, keepEmptyParent |-> k,
                children |-> children, fs |-> fs]
  /\ UNCHANGED <<fs, otherUsed, failing, statFailing, vanished, cfg, stats,
                 children, pc, list, i, deleted, plist, pdeleted, disk,
                 toFree, returned, cycle, emitted, fs0, outcome, pstart,
                 prev, parent>>
  /\ UNCHANGED <<timerVars, populateVars>>

\* the delete() of directory p resumes after `await Promise.all(...)`: it
\* calls _rm_dir unless keepEmptyParent, else goes on to detach itself
DeleteJoin(p) ==
  /\ p \in DOMAIN task
  /\ task[p].st = "children"
  /\ joined(p, task)
  /\ IF ~task[p].keepEmptyParent
     THEN /\ task' = [task EXCEPT ![p].st = "removing"]
          /\ rmLog' = IF callsStorage(dry) THEN Append(rmLog, p) ELSE rmLog
          /\ UNCHANGED children
     ELSE LET r == afterRemoval(p, dry, [task |-> task,
                                         children |-> children,
                                         log |-> rmLog])
          IN /\ task' = r.task
             /\ children' = r.children
             /\ rmLog' = r.log
  /\ UNCHANGED <<fs, otherUsed, failing, statFailing, vanished, cfg, stats,
                 pc, dry, list, i, deleted, plist, pdeleted, disk, toFree,
                 returned, cycle, emitted, fs0, outcome, pstart, prev, called,
                 parent>>
  /\ UNCHANGED <<timerVars, populateVars>>

\* the unlink or rmdir that the delete() of p awaits settles (in a dry run:
\* the await of console.log's result), and the delete() resumes
DeleteSettle(p) ==
  /\ p \in DOMAIN task
  /\ task[p].st = "removing"
  /\ LET fails == callsStorage(dry) /\ (IF isDir(p) THEN rmdirFails(p, fs)
                                                     ELSE unlinkFails(p, fs))
         f1 == IF callsStorage(dry) /\ ~fails THEN RemovePath(p, fs) ELSE fs
         r == afterRemoval(p, dry, [task |-> task, children |-> children,
                                    log |-> rmLog])
     IN /\ fs' = f1
        /\ IF returnsFromCatch(fails)
           THEN /\ task' = [task EXCEPT ![p].st = "done"]
                /\ UNCHANGED <<children, rmLog>>
           ELSE /\ task' = r.task
                /\ children' = r.children
                /\ rmLog' = r.log
  /\ UNCHANGED <<otherUsed, failing, statFailing, vanished, cfg, stats, pc,
                 dry, list, i, deleted, plist, pdeleted, disk, toFree,
                 returned, cycle, emitted, fs0, outcome, pstart, prev, called,
                 parent>>
  /\ UNCHANGED <<timerVars, populateVars>>

\* the delete() of p resumes after `await this.parent.delete(...)`
DeleteResume(p) ==
  /\ p \in DOMAIN task
  /\ task[p].st = "cascade"
  /\ task[dirname(p)].st = "done"
  /\ task' = [task EXCEPT ![p].st = "done"]
  /\ UNCHANGED <<cleanVars, timerVars, called, parent, populateVars>>

NextDelete ==
  \/ List
  \/ \E p \in DirPaths \cup FilePaths \cup {Root}, k \in BOOLEAN, d \in BOOLEAN :
       DeleteCall(p, k, d)
  \/ \E p \in DirPaths \cup {Root} : DeleteJoin(p)
  \/ \E p \in DirPaths \cup FilePaths \cup {Root} : DeleteSettle(p)
  \/ \E p \in DirPaths \cup FilePaths : DeleteResume(p)

SpecDelete == InitDelete /\ [][NextDelete]_vars

(* --------------- cycles whose awaited calls all return ---------------- *)
\* a step of the clean() in flight
CycleStep ==
  \/ ExpireVisit
  \/ PressureStart
  \/ PressureThrow
  \/ PressureStep
  \/ PressureEnd
  \/ CleanReturn

\* every fs and diskusage call that clean() awaits returns, and clean() then
\* resumes; the application is free to call clean() or not
\* storages of every shape, every option but the filter
InitFair ==
  /\ Init
  /\ fs \in ShapeStorages
  /\ cfg.filter = Names

SpecFair == InitFair /\ [][Next]_vars /\ WF_vars(CycleStep)

(* ---------------- expireFS.list(), one step per await ----------------- *)
\* at most one failure: a stat that rejects, a listing that rejects, or a
\* listed name that is gone when it is stat'ed
InitPopulate ==
  /\ InitCommon
  /\ fs \in ShapeStorages
  /\ otherUsed = 0
  /\ cfg = [filter |-> Names, expire |-> [infinite |-> TRUE, ms |-> 0],
            pressure |-> [num |-> 1, den |-> 1], removeEmptyDirs |-> FALSE,
            removeCleanedDirs |-> TRUE]
  /\ failing = {}
  /\ \/ statFailing = {} /\ listFailing = {} /\ vanished = {}
     \/ /\ statFailing \in {{p} : p \in DOMAIN fs \ {Root}}
        /\ listFailing = {} /\ vanished = {}
     \/ /\ listFailing \in {{p} : p \in {q \in DOMAIN fs : fs[q].isDir}}
        /\ statFailing = {} /\ vanished = {}
     \/ /\ vanished \in {{p} : p \in {q \in DirPaths \cup FilePaths :
                                        /\ q \notin DOMAIN fs
                                        /\ dirname(q) \in DOMAIN fs}}
        /\ statFailing = {} /\ listFailing = {}

\* expireFS.list(): the root entry is constructed and its populate() runs up
\* to `await this._get_stats(...)`
PopulateCall ==
  /\ pc = "idle"
  /\ Root \notin DOMAIN children
  /\ children' = (Root :> <<>>)
  /\ ptask' = (Root :> "stat")
  /\ UNCHANGED <<fs, otherUsed, failing, statFailing, vanished, cfg, stats, pc,
                 dry, list, i, deleted, plist, pdeleted, disk, toFree,
                 returned, cycle, emitted, rmLog, fs0, outcome, pstart, prev,
                 listFailing>>
  /\ UNCHANGED <<timerVars, deleteVars>>

\* the stat that the populate() of p awaits settles: on an error populate
\* returns, for a file it returns, for a directory it calls _get_list
StatSettles(p) ==
  /\ p \in DOMAIN ptask
  /\ ptask[p] = "stat"
  /\ IF statFails(p, fs)
     THEN /\ ptask' = [ptask EXCEPT ![p] = "done"]
          /\ UNCHANGED stats
     ELSE /\ stats' = (p :> fs[p]) @@ stats
          /\ ptask' = [ptask EXCEPT ![p] = IF fs[p].isDir THEN "list"
                                                         ELSE "done"]
  /\ UNCHANGED <<fs, otherUsed, failing, statFailing, vanished, cfg, children,
                 pc, dry, list, i, deleted, plist, pdeleted, disk, toFree,
                 returned, cycle, emitted, rmLog, fs0, outcome, pstart, prev,
                 listFailing>>
  /\ UNCHANGED <<timerVars, deleteVars>>

\* the readdir that the populate() of p awaits settles: on an error populate
\* returns; else a child entry is constructed and registered for every name,
\* the populate() of every child is called and Promise.all awaited
ListSettles(p) ==
  /\ p \in DOMAIN ptask
  /\ ptask[p] = "list"
  /\ IF readdirFails(p, fs)
     THEN /\ ptask' = [ptask EXCEPT ![p] = "done"]
          /\ UNCHANGED children
     ELSE LET names == readdir(p, fs)
              entries == {join(p, names[k]) : k \in 1..Len(names)}
          IN /\ children' = [c \in DOMAIN children \cup entries |->
                               IF c = p THEN names
                               ELSE IF c \in entries THEN <<>>
                               ELSE children[c]]
             /\ ptask' = [c \in DOMAIN ptask \cup entries |->
                            IF c = p THEN "children"
                            ELSE IF c \in entries THEN "stat"
                            ELSE ptask[c]]
  /\ UNCHANGED <<fs, otherUsed, failing, statFailing, vanished, cfg, stats, pc,
                 dry, list, i, deleted, plist, pdeleted, disk, toFree,
                 returned, cycle, emitted, rmLog, fs0, outcome, pstart, prev,
                 listFailing>>
  /\ UNCHANGED <<timerVars, deleteVars>>

\* the populate() of directory p resumes after `await Promise.all(...)` and
\* returns
PopulateJoin(p) ==
  /\ p \in DOMAIN ptask
  /\ ptask[p] = "children"
  /\ populated(p, ptask, children)
  /\ ptask' = [ptask EXCEPT ![p] = "done"]
  /\ UNCHANGED <<cleanVars, timerVars, deleteVars, listFailing>>

NextPopulate ==
  \/ PopulateCall
  \/ \E p \in DirPaths \cup FilePaths \cup {Root} : StatSettles(p)
  \/ \E p \in DirPaths \cup {Root} : ListSettles(p)
  \/ \E p \in DirPaths \cup {Root} : PopulateJoin(p)

SpecPopulate == InitPopulate /\ [][NextPopulate]_vars

(* ------------------- cycles with a failing listing ------------------- *)
\* one stored directory whose readdir fails with an I/O error
InitList ==
  /\ InitCommon
  /\ fs \in ShapeStorages
  /\ failing = {}
  /\ statFailing = {}
  /\ vanished = {}
  /\ listFailing \in {{p} : p \in {q \in DOMAIN fs : fs[q].isDir}}

SpecList == InitList /\ [][Next]_vars

(* ------------------ cycles with a failing removal --------------------- *)
\* at most one stored path whose unlink/rmdir fails with an I/O error
InitFail ==
  /\ InitCommon
  /\ failing \in {{}} \cup {{p} : p \in DOMAIN fs}
  /\ statFailing = {}
  /\ listFailing = {}
  /\ vanished = {}

\* clean({dry: false}) cycles: a dry cycle issues no removal that could fail
NextFail ==
  \/ Clean(FALSE)
  \/ ExpireVisit
  \/ PressureStart
  \/ PressureThrow
  \/ PressureEnd
  \/ PressureStep
  \/ CleanReturn

SpecFail == InitFail /\ [][NextFail]_vars

(* -------------------- cycles with a failing stat ---------------------- *)
\* either one stored path below the watched folder whose stat fails with an
\* I/O error, or one path that is removed by somebody else between the
\* listing of its directory and its stat
InitStat ==
  /\ InitCommon
  /\ failing = {}
  /\ listFailing = {}
  /\ \/ /\ statFailing \in {{p} : p \in DOMAIN fs \ {Root}}
        /\ vanished = {}
     \/ /\ statFailing = {}
        /\ vanished \in {{p} : p \in {q \in DirPaths \cup FilePaths :
                                        /\ q \notin DOMAIN fs
                                        /\ dirname(q) \in DOMAIN fs}}

NextStat ==
  \/ Next
  \/ \E d \in BOOLEAN : CleanThrow(d)

SpecStat == InitStat /\ [][NextStat]_vars

(* ------------- constructor, timer and clean() invocations ------------- *)
\* an empty watched folder with the default policies; the constructor has
\* not been called yet
InitTimer ==
  /\ InitCycle
  /\ fs = (Root :> DirStat)
  /\ otherUsed = 0
  /\ cfg = [filter |-> Names, expire |-> [infinite |-> TRUE, ms |-> 0],
            pressure |-> [num |-> 1, den |-> 1], removeEmptyDirs |-> FALSE,
            removeCleanedDirs |-> TRUE]
  /\ failing = {}
  /\ statFailing = {}
  /\ listFailing = {}
  /\ vanished = {}
  /\ ctor = "none"
  /\ opts \in Options
  /\ interval = 0
  /\ timers = {}
  /\ handles = 0
  /\ runs = <<>>
  /\ lastCall = NoCall
  /\ listener = FALSE

TimerState ==
  [result |-> FALSE, interval |-> interval, timers |-> timers,
   handles |-> handles]

\* new ExpireFS(opts)
Construct ==
  /\ ctor = "none"
  /\ LET c == constructor(opts)
         t == IF c.started THEN start(TimerState) ELSE TimerState
     IN /\ ctor' = IF c.thrown THEN "thrown" ELSE "ok"
        /\ interval' = t.interval
        /\ timers' = t.timers
        /\ handles' = t.handles
  /\ UNCHANGED <<opts, runs, lastCall, listener>>
  /\ UNCHANGED <<cleanVars, deleteVars, populateVars>>

\* expireFS.start()
Start ==
  /\ ctor = "ok"
  /\ alreadyStarted(interval) \/ handles < MaxHandles
  /\ LET t == start(TimerState)
     IN /\ interval' = t.interval
        /\ timers' = t.timers
        /\ handles' = t.handles
        /\ lastCall' = [op |-> "start", result |-> t.result,
                        interval |-> interval, timers |-> timers]
  /\ UNCHANGED <<ctor, opts, runs, listener>>
  /\ UNCHANGED <<cleanVars, deleteVars, populateVars>>

\* expireFS.stop(); the clean() calls in flight are marked, not touched
Stop ==
  /\ ctor = "ok"
  /\ LET t == stop(TimerState)
     IN /\ interval' = t.interval
        /\ timers' = t.timers
        /\ handles' = t.handles
        /\ lastCall' = [op |-> "stop", result |-> t.result,
                        interval |-> interval, timers |-> timers]
  /\ runs' = [id \in DOMAIN runs |->
                IF runs[id].phase \in {"list", "expire", "pressure"}
                THEN [runs[id] EXCEPT !.sawStop = TRUE]
                ELSE runs[id]]
  /\ UNCHANGED <<ctor, opts, listener>>
  /\ UNCHANGED <<cleanVars, deleteVars, populateVars>>

\* expireFS.on('error', listener)
OnError ==
  /\ ctor = "ok"
  /\ ~listener
  /\ listener' = TRUE
  /\ UNCHANGED <<ctor, opts, interval, timers, handles, runs, lastCall>>
  /\ UNCHANGED <<cleanVars, deleteVars, populateVars>>

\* the timer with handle h fires: its callback calls this.clean()
Tick(h) ==
  /\ h \in timers
  /\ Len(runs) < MaxRuns
  /\ runs' = Append(runs, NewRun("timer"))
  /\ UNCHANGED <<ctor, opts, interval, timers, handles, lastCall, listener>>
  /\ UNCHANGED <<cleanVars, deleteVars, populateVars>>

\* expireFS.clean() called by the application
ManualClean ==
  /\ ctor = "ok"
  /\ Len(runs) < MaxRuns
  /\ runs' = Append(runs, NewRun("manual"))
  /\ UNCHANGED <<ctor, opts, interval, timers, handles, lastCall, listener>>
  /\ UNCHANGED <<cleanVars, deleteVars, populateVars>>

\* the clean() invocation id resumes after one of its awaits
RunStep(id) ==
  /\ id \in DOMAIN runs
  /\ runs[id].phase \in {"list", "expire", "pressure"}
  /\ runs' = [runs EXCEPT ![id] = advance(@)]
  /\ UNCHANGED <<ctor, opts, interval, timers, handles, lastCall, listener>>
  /\ UNCHANGED <<cleanVars, deleteVars, populateVars>>

\* the clean() invocation id rejects: entry.list() throws in _expire, or
\* diskusage.check rejects in _pressure
RunThrow(id) ==
  /\ runs[id].phase \in {"expire", "pressure"}
  /\ runs' = [runs EXCEPT ![id] = reject(@, listener)]
  /\ UNCHANGED <<ctor, opts, interval, timers, handles, lastCall, listener>>
  /\ UNCHANGED <<cleanVars, deleteVars, populateVars>>

NextTimer ==
  \/ Construct
  \/ Start
  \/ Stop
  \/ OnError
  \/ \E h \in timers : Tick(h)
  \/ ManualClean
  \/ \E id \in DOMAIN runs : RunStep(id)
  \/ \E id \in DOMAIN runs : RunThrow(id)

SpecTimer == InitTimer /\ [][NextTimer]_vars

\* the constructor is called with a folder below the root level and the
\* default unsafe and timeType
InitValid ==
  /\ InitTimer
  /\ opts.folder = [given |-> TRUE, names |-> <<"tmp", "cache">>]
  /\ ~opts.unsafe
  /\ opts.timeType = "birthtime"

\* every fs and diskusage call a clean() awaits settles, and the event loop
\* then resumes that clean()
SpecTimerFair ==
  /\ InitValid
  /\ [][NextTimer]_vars
  /\ \A id \in 1..MaxRuns : WF_vars(RunStep(id))

(* ====================================================================== *)
(* Properties                                                             *)
(* ====================================================================== *)
StoredFiles(f) == {p \in DOMAIN f : ~f[p].isDir}
FileEntries == {p \in DOMAIN stats : ~stats[p].isDir}
DirEntries == {p \in DOMAIN stats : stats[p].isDir}
\* p is still a key of its parent's children mapping
Attached(p) ==
  /\ p # Root
  /\ \E k \in 1..Len(children[dirname(p)]) : children[dirname(p)][k] = basename(p)
\* p had at least one child in storage when the cycle started
HadChildren(p) == \E q \in DOMAIN fs0 : q # Root /\ dirname(q) = p
ExpireFinished == pc = "expire" /\ i > Len(list)
RECURSIVE TotalSize(_)
TotalSize(s) == IF s = <<>> THEN 0 ELSE stats[Head(s)].size + TotalSize(Tail(s))

(* ------------------------------- C1 ----------------------------------- *)
\* the age condition of a stored file, read off storage and the options
AgeCondition(p) ==
  /\ basename(p) \in cfg.filter
  /\ ~cfg.expire.infinite
  /\ Now - fs0[p].time >= cfg.expire.ms

\* C1: when _expire has finished a non-dry run without storage failure, a
\* file that was in storage at the start of the cycle is gone from storage
\* if and only if the filter matches it and its age is >= expire.
C1_AgePolicy ==
  (ExpireFinished /\ ~dry /\ failing = {}) =>
    \A p \in StoredFiles(fs0) : (p \notin DOMAIN fs) <=> AgeCondition(p)

\* a run that removed a file whose age equals expire exactly and kept an old
\* file the filter does not match
C1_Witness ==
  /\ ExpireFinished /\ ~dry /\ failing = {}
  /\ \E p \in StoredFiles(fs0) :
       /\ ~cfg.expire.infinite /\ Now - fs0[p].time = cfg.expire.ms
       /\ p \notin DOMAIN fs
  /\ \E q \in StoredFiles(fs0) :
       /\ ~cfg.expire.infinite /\ Now - fs0[q].time > cfg.expire.ms
       /\ basename(q) \notin cfg.filter
       /\ q \in DOMAIN fs

(* ------------------------------- C2 ----------------------------------- *)
\* C2: a cleanup cycle never removes the watched root folder from storage.
C2_RootNeverRemoved == Root \in DOMAIN fs

(* ------------------------------- C3 ----------------------------------- *)
\* every non-root directory emptied by the cycle's deletions is gone from
\* storage and detached (removeCleanedDirs, non-dry, no storage failure)
EmptiedDirsRemoved ==
  (cfg.removeCleanedDirs /\ ~dry /\ failing = {}) =>
    \A p \in DirEntries \ {Root} :
      (HadChildren(p) /\ Len(children[p]) = 0) =>
        (p \notin DOMAIN fs /\ ~Attached(p))

\* C3: with keepEmptyParent = false every ancestor emptied by a deletion is
\* removed from storage and detached, up the chain; a step of a policy
\* detaches at most the one entry it deletes from a directory that has other
\* children, and that directory stays in storage and attached.
C3_CascadingCleanup ==
  [][pc # "idle" =>
       /\ EmptiedDirsRemoved'
       /\ \A p \in DirEntries :
            Len(children[p]) >= 2 =>
              /\ Len(children'[p]) >= Len(children[p]) - 1
              /\ p \in DOMAIN fs'
              /\ (p # Root => Attached(p)')]_vars

\* "h" was deleted, its directory "b" followed, and "a" survived with "g"
C3_Witness ==
  /\ cfg.removeCleanedDirs /\ ~dry /\ pc # "idle"
  /\ <<"a", "b", "h">> \in DOMAIN fs0
  /\ <<"a", "b">> \notin DOMAIN fs
  /\ ~Attached(<<"a", "b">>)
  /\ <<"a">> \in DOMAIN fs
  /\ children[<<"a">>] = <<"g">>

(* ------------------------------- C4 ----------------------------------- *)
\* C4: a dry clean issues no unlink and no rmdir and leaves storage as it
\* was, while the entries it reports are detached and emptied parents are
\* collapsed in memory.
C4_DryNeverTouchesStorage ==
  dry =>
    /\ rmLog = <<>>
    /\ fs = fs0
    /\ \A p \in Range(deleted \o pdeleted) : ~Attached(p)
    /\ cfg.removeCleanedDirs =>
         \A p \in DirEntries \ {Root} :
           (HadChildren(p) /\ Len(children[p]) = 0) => ~Attached(p)

\* a dry run in which both policies reported entries and "a" collapsed
C4_Witness ==
  /\ dry /\ pc = "return"
  /\ deleted # <<>> /\ pdeleted # <<>>
  /\ cfg.removeCleanedDirs
  /\ <<"a">> \in DirEntries /\ HadChildren(<<"a">>) /\ ~Attached(<<"a">>)

(* ------------------------------- C5 ----------------------------------- *)
\* C5: two clean() runs from the same storage and disk usage, one dry and one
\* not, without storage failure, return the same set of entries.
C5_DryRunParity ==
  (/\ pc = "idle" /\ cycle >= 2
   /\ outcome = "resolved" /\ prev.outcome = "resolved"
   /\ failing = {}
   /\ prev.fs0 = fs0 /\ prev.dry # dry)
    => Range(prev.returned) = Range(returned)

(* ------------------------------- C6 ----------------------------------- *)
\* C6: when _pressure sampled used bytes above pressure x total and no
\* removal failed, then on return used bytes minus the size of the files it
\* deleted is <= pressure x total, or no file is left in the tree.
C6_PressureBound ==
  (/\ pc = "return" /\ failing = {}
   /\ (disk.total - disk.available) * cfg.pressure.den
        > cfg.pressure.num * disk.total)
    => \/ ((disk.total - disk.available) - TotalSize(pdeleted))
            * cfg.pressure.den <= cfg.pressure.num * disk.total
       \/ \A p \in FileEntries : ~Attached(p)

\* the bound was reached with a file left in the tree
C6_Witness ==
  /\ pc = "return" /\ failing = {}
  /\ (disk.total - disk.available) * cfg.pressure.den
       > cfg.pressure.num * disk.total
  /\ Len(pdeleted) >= 2
  /\ \E p \in FileEntries : Attached(p)

(* ------------------------------- C7 ----------------------------------- *)
\* C7: whenever _pressure has deleted a file, every file of the tree it
\* started from with a strictly older timestamp was deleted by it before
\* (and, in a non-dry run, is gone from storage).
C7_PressureOrder ==
  \A k \in 1..Len(pdeleted) :
    /\ ~stats[pdeleted[k]].isDir
    /\ \A q \in Range(pstart.list) :
         (~stats[q].isDir /\ stats[q].time < stats[pdeleted[k]].time) =>
           /\ \E j \in 1..(k - 1) : pdeleted[j] = q
           /\ ~dry => q \notin DOMAIN fs

\* two files deleted in order of age while a newer third one is kept
C7_Witness ==
  /\ pc = "return" /\ Len(pdeleted) = 2
  /\ stats[pdeleted[1]].time < stats[pdeleted[2]].time
  /\ \E q \in FileEntries :
       Attached(q) /\ stats[q].time > stats[pdeleted[2]].time

(* ------------------------------- C8 ----------------------------------- *)
\* bytes in use when _pressure started
UsedAtPressureStart ==
  otherUsed + SumSizes(DOMAIN pstart.fs, pstart.fs)
PressureRan == Root \in DOMAIN pstart.fs
BelowThresholdAtStart ==
  UsedAtPressureStart * cfg.pressure.den < cfg.pressure.num * DiskTotal

\* C8: when the used fraction is below pressure as _pressure starts, it
\* returns an empty list and leaves tree and storage as they were, and
\* clean() returns the list of _expire.
C8_BelowThresholdNoAction ==
  (PressureRan /\ BelowThresholdAtStart) =>
    /\ pdeleted = <<>>
    /\ fs = pstart.fs
    /\ children = pstart.children
    /\ (pc = "idle" /\ outcome = "resolved") => returned = deleted

\* clean() returned a non-empty list of _expire with usage below pressure
C8_Witness ==
  /\ PressureRan /\ BelowThresholdAtStart
  /\ pc = "idle" /\ outcome = "resolved"
  /\ returned # <<>>
  /\ \E p \in FileEntries : Attached(p)

(* ------------------------------- C9 ----------------------------------- *)
\* C9: with pressure = 1 _pressure deletes nothing, whatever the disk state.
C9_DefaultPressureDisabled ==
  (cfg.pressure.num = cfg.pressure.den) =>
    /\ pdeleted = <<>>
    /\ PressureRan => (fs = pstart.fs /\ children = pstart.children)

\* a completely full disk with files in the tree, after _pressure returned
C9_Witness ==
  /\ cfg.pressure.num = cfg.pressure.den
  /\ pc = "return"
  /\ disk.available = 0
  /\ \E p \in FileEntries : Attached(p)

(* ------------------------------- C10 ---------------------------------- *)
\* C10: with expire = Infinity _expire deletes no file: its list holds
\* directories only, every file stays attached while it runs, and a file
\* gone from storage is in the list of _pressure.
C10_InfiniteExpire ==
  cfg.expire.infinite =>
    /\ \A k \in 1..Len(deleted) : stats[deleted[k]].isDir
    /\ pc = "expire" => \A p \in FileEntries : Attached(p) /\ p \in DOMAIN fs
    /\ \A p \in StoredFiles(fs0) : p \notin DOMAIN fs => p \in Range(pdeleted)

\* the oldest possible file, matched by the filter, survived _expire and was
\* then removed by _pressure
C10_Witness ==
  /\ cfg.expire.infinite /\ cfg.filter = Names /\ ~dry
  /\ pc = "return"
  /\ \E p \in Range(pdeleted) : fs0[p].time = 1 /\ p \notin DOMAIN fs

(* ------------------------------- C11 ---------------------------------- *)
\* p is a key of its parent's entry in the children mapping ch
AttachedIn(p, ch) ==
  /\ p # Root
  /\ \E k \in 1..Len(ch[dirname(p)]) : ch[dirname(p)][k] = basename(p)

\* C11: while _expire runs, _pressure has neither sampled the disk nor listed
\* or deleted anything; once _pressure has sampled, every visit of _expire is
\* over, and what it sampled is tree and storage with the deletions of
\* _expire applied: its entries detached, its files and the directories it
\* emptied removed (non-dry, no storage failure), the sample taken from that
\* storage.
C11_ExpireBeforePressure ==
  /\ pc = "expire" => (~PressureRan /\ pdeleted = <<>> /\ plist = <<>>)
  /\ PressureRan =>
       /\ i > Len(list)
       /\ disk.available = DiskTotal - UsedAtPressureStart
       /\ failing = {} =>
            \A k \in 1..Len(deleted) :
              /\ ~AttachedIn(deleted[k], pstart.children)
              /\ (~dry /\ ~stats[deleted[k]].isDir) =>
                   deleted[k] \notin DOMAIN pstart.fs
       /\ (cfg.removeCleanedDirs /\ ~dry /\ failing = {}) =>
            \A p \in DirEntries \ {Root} :
              (HadChildren(p) /\ Len(pstart.children[p]) = 0) =>
                (p \notin DOMAIN pstart.fs /\ ~AttachedIn(p, pstart.children))

\* _expire removed a file and the directory it emptied, then _pressure
\* sampled the disk and deleted a file of its own
C11_Witness ==
  /\ PressureRan /\ ~dry /\ pc = "return"
  /\ deleted # <<>> /\ pdeleted # <<>>
  /\ \E p \in DirEntries \ {Root} : p \notin DOMAIN pstart.fs
  /\ \E q \in Range(pdeleted) : q \in DOMAIN pstart.fs /\ q \notin DOMAIN fs

(* ------------------------------- C12 ---------------------------------- *)
\* C12: in a non-dry cycle an entry whose unlink or rmdir was issued and
\* failed stays in storage and in its parent's children, its parent is not
\* passed to rmdir and stays stored and attached; _expire still removes every
\* other file that meets the age condition; and no clean() rejects because a
\* removal failed (it rejects only when the watched folder is gone).
C12_RemovalFailureContained ==
  /\ ~dry =>
       \A p \in failing \cap Range(rmLog) :
         /\ p \in DOMAIN fs
         /\ p # Root =>
              /\ Attached(p)
              /\ dirname(p) \notin Range(rmLog)
              /\ dirname(p) \in DOMAIN fs
              /\ dirname(p) # Root => Attached(dirname(p))
  /\ (ExpireFinished /\ ~dry) =>
       \A q \in StoredFiles(fs0) \ failing : AgeCondition(q) => q \notin DOMAIN fs
  /\ (pc = "idle" /\ outcome = "rejected") => Root \notin DOMAIN fs

\* unlink of "g" failed: "g" and its directory "a" stay, while "h" next to it
\* was removed and its emptied directory "b" collapsed
C12_Witness ==
  /\ ExpireFinished /\ ~dry /\ cfg.removeCleanedDirs
  /\ failing = {<<"a", "g">>}
  /\ <<"a", "g">> \in Range(rmLog)
  /\ <<"a", "g">> \in DOMAIN fs /\ Attached(<<"a", "g">>)
  /\ <<"a", "b", "h">> \in DOMAIN fs0
  /\ <<"a", "b", "h">> \notin DOMAIN fs
  /\ <<"a", "b">> \notin DOMAIN fs
  /\ <<"a">> \in DOMAIN fs

(* ------------------------------- C13 ---------------------------------- *)
\* the entries below the root that population left without metadata
StatFailed == {p \in DOMAIN children \ {Root} : p \notin DOMAIN stats}

\* C13: a clean() whose population left an entry below the root without
\* metadata resolves, and neither policy deletes or reports that entry.
C13_StatFailureInert ==
  /\ (pc = "idle" /\ cycle > 0 /\ StatFailed # {}) => outcome = "resolved"
  /\ StatFailed \cap Range(deleted \o pdeleted) = {}
  /\ (pc = "idle" /\ outcome = "resolved") =>
       StatFailed \cap Range(returned) = {}

(* ------------------------------- C14 ---------------------------------- *)
\* C14: every key of a children mapping of the populated tree names a path
\* that was in storage when population fetched its metadata: a name that
\* vanished after the listing is not in its parent's children.
C14_VanishedEntryAbsent ==
  \A q \in DOMAIN children :
    \A k \in 1..Len(children[q]) : join(q, children[q][k]) \in DOMAIN fs0

(* ------------------------------- C15 ---------------------------------- *)
\* the clean() invocations that have neither resolved nor rejected
InFlight ==
  {id \in DOMAIN runs : runs[id].phase \in {"list", "expire", "pressure"}}

\* C15: at most one clean() invocation of the instance is in flight.
C15_OneCycleInFlight == Cardinality(InFlight) <= 1

(* ------------------------------- C16 ---------------------------------- *)
\* C16: at most one timer is scheduled, and it is the one this._interval
\* holds; the latest start() returned true iff no timer was active, and then
\* scheduled a new one, else it returned false and left interval and timers
\* as they were; the latest stop() returned true iff a timer was active, and
\* then no timer is left, else it returned false and changed nothing.
C16_TimerStateMachine ==
  /\ Cardinality(timers) <= 1
  /\ timers = IF interval = 0 THEN {} ELSE {interval}
  /\ lastCall.op = "start" =>
       /\ lastCall.result = (lastCall.interval = 0)
       /\ interval # 0
       /\ lastCall.result => interval \notin lastCall.timers
       /\ ~lastCall.result =>
            (interval = lastCall.interval /\ timers = lastCall.timers)
  /\ lastCall.op = "stop" =>
       /\ lastCall.result = (lastCall.interval # 0)
       /\ interval = 0
       /\ timers = {}
       /\ ~lastCall.result => timers = lastCall.timers

\* start() was refused on an instance whose timer was scheduled by an
\* earlier start() after a stop()
C16_Witness ==
  /\ lastCall.op = "start" /\ ~lastCall.result
  /\ handles = 2 /\ interval = 2 /\ timers = {2}

(* ------------------------------- C17 ---------------------------------- *)
Ended(id) == id \in DOMAIN runs /\ runs[id].phase \in {"resolved", "rejected"}

\* C17: while this._interval is null no step begins a timer-driven clean();
\* a stop() that clears the timer leaves every clean() invocation where it
\* is; every clean() that resolved has emitted 'clean' exactly once; and a
\* clean() that was in flight when stop() was called goes on until it has
\* resolved or rejected.
C17_StopSparesRunningCycle ==
  /\ [][interval = 0 =>
         \A id \in DOMAIN runs' \ DOMAIN runs : runs'[id].by # "timer"]_vars
  /\ [][(interval # 0 /\ interval' = 0) =>
         (/\ DOMAIN runs' = DOMAIN runs
          /\ \A id \in DOMAIN runs :
               [runs'[id] EXCEPT !.sawStop = FALSE]
                 = [runs[id] EXCEPT !.sawStop = FALSE])]_vars
  /\ [](\A id \in DOMAIN runs :
         runs[id].phase = "resolved" => runs[id].cleanEvents = 1)
  /\ \A id \in 1..MaxRuns :
       (id \in DOMAIN runs /\ runs[id].sawStop) ~> Ended(id)

\* a timer-driven clean() was in flight when stop() cleared the timer, and it
\* resolved and emitted 'clean' while the instance was still stopped
C17_Witness ==
  /\ interval = 0 /\ timers = {}
  /\ lastCall.op = "stop" /\ lastCall.result
  /\ \E id \in DOMAIN runs :
       /\ runs[id].by = "timer" /\ runs[id].sawStop
       /\ runs[id].phase = "resolved" /\ runs[id].cleanEvents = 1

(* ------------------------------- C18 ---------------------------------- *)
\* C18: a timer-driven clean() that rejected was surfaced as exactly one
\* 'error' event and nothing was thrown out of the timer callback.
C18_TimerFailureSurfaced ==
  \A id \in DOMAIN runs :
    (runs[id].by = "timer" /\ runs[id].phase = "rejected") =>
      (runs[id].errorEvents = 1 /\ ~runs[id].escaped)

(* ------------------------------- C19 ---------------------------------- *)
\* C19: a clean() that resolved has emitted 'clean' exactly once, a clean()
\* that rejected or is still running has emitted none, and the step that
\* emits is the return of clean(): both policies are over and the step
\* leaves storage and tree alone.
C19_CleanEventOnce ==
  /\ [](/\ (pc = "idle" /\ outcome = "resolved") => emitted = 1
        /\ (pc = "idle" /\ outcome = "rejected") => emitted = 0
        /\ pc # "idle" => emitted = 0)
  /\ [][emitted' # emitted /\ emitted' # 0 =>
         /\ pc = "return"
         /\ i > Len(list)
         /\ fs' = fs
         /\ children' = children
         /\ returned' = deleted \o pdeleted]_vars

\* one clean() resolved after removing files by both policies, the next one
\* rejected
C19_Witness ==
  /\ pc = "idle" /\ cycle = 2
  /\ prev.outcome = "resolved" /\ outcome = "rejected"
  /\ emitted = 0
  /\ prev.returned # <<>>

(* ------------------------------- C20 ---------------------------------- *)
\* a configuration error: no folder, a folder at root level ("/" or "/x")
\* without unsafe, or a timeType that is not one of the four
ConfigError(o) ==
  \/ ~o.folder.given
  \/ (Len(o.folder.names) <= 1 /\ ~o.unsafe)
  \/ o.timeType \notin {"atime", "mtime", "ctime", "birthtime"}

\* C20: the constructor throws exactly for a configuration error, and an
\* instance whose constructor threw has no timer, scheduled or stored, and
\* no clean() invocation, ever; with valid options autoStart decides whether
\* construction schedules the timer.
C20_ConfigErrorsBeforeTimer ==
  /\ ctor # "none" => ((ctor = "thrown") <=> ConfigError(opts))
  /\ ctor = "thrown" =>
       (interval = 0 /\ timers = {} /\ handles = 0 /\ runs = <<>>)
  /\ (ctor = "ok" /\ handles = 0) => ~opts.autoStart

\* the last of the three checks threw although autoStart was true
C20_Witness ==
  /\ ctor = "thrown"
  /\ opts.autoStart
  /\ opts.folder = [given |-> TRUE, names |-> <<"tmp", "cache">>]
  /\ opts.timeType = "created"

(* ------------------------------- C21 ---------------------------------- *)
\* the directories _expire has visited that had no child when visited (a
\* directory is visited before anything below it, so its children are then
\* the ones population found)
VisitedEmptyDirs ==
  {list[k] : k \in {j \in 1..Len(list) :
                     j < i /\ stats[list[j]].isDir /\ ~HadChildren(list[j])}}

\* C21: with removeEmptyDirs, in a non-dry run without storage failure, every
\* directory that had no child when _expire visited it is gone from storage
\* and is in the list of _expire, whatever removeCleanedDirs is.
C21_EmptyDirsReclaimed ==
  (cfg.removeEmptyDirs /\ ~dry /\ failing = {} /\ pc # "idle") =>
    \A p \in VisitedEmptyDirs : p \notin DOMAIN fs /\ p \in Range(deleted)

(* ------------------------------- C22 ---------------------------------- *)
\* the paths directly below p when the cycle started
ChildrenAtStart(p) == {q \in DOMAIN fs0 : q # Root /\ dirname(q) = p}

\* C22: without removeEmptyDirs, a directory that was in storage when the
\* cycle started and is gone now was removed under removeCleanedDirs, had
\* children when it was scanned, and all of them are gone from storage, the
\* files among them being entries the policies deleted.
C22_DirsRemovedOnlyWhenCleaned ==
  ~cfg.removeEmptyDirs =>
    \A p \in DOMAIN fs0 :
      (fs0[p].isDir /\ p \notin DOMAIN fs) =>
        /\ cfg.removeCleanedDirs
        /\ ChildrenAtStart(p) # {}
        /\ \A q \in ChildrenAtStart(p) :
             /\ q \notin DOMAIN fs
             /\ ~fs0[q].isDir => q \in Range(deleted \o pdeleted)

\* "g" was deleted from "a" under removeCleanedDirs while "b", empty since
\* the scan, and therefore "a" stay in storage
C22_Witness ==
  /\ ~cfg.removeEmptyDirs /\ cfg.removeCleanedDirs /\ ~dry
  /\ pc = "return"
  /\ <<"a", "g">> \in DOMAIN fs0 /\ <<"a", "g">> \notin DOMAIN fs
  /\ <<"a", "b">> \in DOMAIN fs0 /\ ChildrenAtStart(<<"a", "b">>) = {}
  /\ <<"a", "b">> \in DOMAIN fs /\ <<"a">> \in DOMAIN fs

(* ------------------------------- C23 ---------------------------------- *)
\* C23: a cycle of clean() called without argument on an instance built
\* without the dry option is not dry, and the files it has deleted so far are
\* gone from storage.
C23_DefaultRunsNonDry ==
  (~opts.dry.given /\ pc # "idle") =>
    /\ ~dry
    /\ \A p \in Range(deleted \o pdeleted) :
         ~stats[p].isDir => p \notin DOMAIN fs

(* ------------------------------- C24 ---------------------------------- *)
\* C24: when a non-dry clean() has resolved, every entry of the list it
\* returned is absent from storage, also when a removal failed.
C24_ReturnedOnlyDeleted ==
  (pc = "idle" /\ outcome = "resolved" /\ ~dry) =>
    \A p \in Range(returned) : p \notin DOMAIN fs

(* ------------------------------- C25 ---------------------------------- *)
\* C25: when a non-dry clean() has resolved, every path that left storage
\* during the cycle, cascaded parent directories included, is in the list it
\* returned.
C25_ReturnedComplete ==
  (pc = "idle" /\ outcome = "resolved" /\ ~dry) =>
    \A p \in DOMAIN fs0 \ DOMAIN fs : p \in Range(returned)

(* ------------------------------- C26 ---------------------------------- *)
\* the cycle follows a resolved non-dry cycle and is itself not dry
SecondRun == prev.outcome = "resolved" /\ ~prev.dry /\ ~dry

\* at the start of the cycle no stored file meets the age condition and the
\* used fraction is below pressure
NoViolationAtStart ==
  /\ \A p \in StoredFiles(fs0) : ~AgeCondition(p)
  /\ UsedBytes(fs0) * cfg.pressure.den < cfg.pressure.num * DiskTotal

\* C26: in a non-dry cycle that follows a resolved non-dry cycle and starts
\* with no file meeting the age condition and usage below pressure, _expire
\* and _pressure delete nothing, storage is unchanged and clean() returns an
\* empty list, for every configuration.
C26_NoOpCycleIdempotent ==
  (SecondRun /\ NoViolationAtStart) =>
    /\ deleted = <<>>
    /\ pdeleted = <<>>
    /\ fs = fs0
    /\ (pc = "idle" /\ outcome = "resolved") => returned = <<>>

(* ------------------------------- C27 ---------------------------------- *)
\* C27: in a non-dry cycle, a step that detaches an entry from its parent's
\* children leaves that entry removed from storage: no entry is detached
\* without its own removal having succeeded, also when a removal fails.
C27_DetachAfterRemoval ==
  [][(pc # "idle" /\ ~dry) =>
       \A p \in DOMAIN stats \ {Root} :
         (AttachedIn(p, children) /\ ~AttachedIn(p, children')) =>
           p \notin DOMAIN fs']_vars

(* ------------------------------- C30 ---------------------------------- *)
\* C30: in a non-dry cycle on storage that nothing else changes, every
\* scanned entry that is no longer a key of its parent's children is absent
\* from storage: no entry still stored is detached.
C30_TreeStorageConsistent ==
  ~dry => \A p \in DOMAIN stats \ {Root} : ~Attached(p) => p \notin DOMAIN fs

(* ------------------------------- C28 ---------------------------------- *)
\* the delete() invoked on p is past `await Promise.all(...)`
PastJoin(p) == task[p].st \in {"removing", "cascade", "done"}

\* C28: whenever delete() has been invoked on a directory, delete() has been
\* invoked on every child it then had, before any of them settles; and the
\* directory's delete() is past its Promise.all, so that its rmdir can be
\* issued, only when the delete() of every one of those children is done,
\* in whatever order the children's removals settle.
C28_ChildrenJoinedBeforeRmdir ==
  \A p \in DOMAIN task :
    \A k \in 1..Len(task[p].awaited) :
      LET c == task[p].awaited[k]
      IN /\ task[c].st # "none"
         /\ PastJoin(p) => task[c].st = "done"
         /\ (p \in Range(rmLog) /\ ~stats[c].isDir /\ ~dry) =>
              \E m, n \in 1..Len(rmLog) :
                m < n /\ rmLog[m] = c /\ rmLog[n] = p

\* rmdir of "a" was issued after the removals of "h" and "g", both done
C28_Witness ==
  /\ called.active /\ called.target = <<"a">> /\ ~called.keepEmptyParent
  /\ ~dry
  /\ task[<<"a">>].awaited = << <<"a", "b">>, <<"a", "g">> >>
  /\ task[<<"a">>].st = "removing"
  /\ rmLog = << <<"a", "b", "h">>, <<"a", "g">>, <<"a">> >>

(* ------------------------------- C29 ---------------------------------- *)
\* q lies below p
Descendant(q, p) == Len(q) > Len(p) /\ SubSeq(q, 1, Len(p)) = p

\* C29: when delete({keepEmptyParent: false, dry: false}) called on a
\* directory below the root has resolved and no removal was made to fail,
\* the directory and all its descendants are absent from storage and the
\* directory is detached from its parent.
C29_DeleteRemovesSubtree ==
  (/\ called.active /\ called.target # Root
   /\ task[called.target].st = "done"
   /\ stats[called.target].isDir
   /\ ~called.keepEmptyParent /\ ~dry /\ failing = {}) =>
    /\ called.target \notin DOMAIN fs
    /\ \A q \in DOMAIN called.fs :
         Descendant(q, called.target) => q \notin DOMAIN fs
    /\ ~AttachedIn(called.target, children)

(* ------------------------------- C33 ---------------------------------- *)
\* position of x in the sequence sq (0 when absent)
IndexOf(x, sq) ==
  IF \E k \in 1..Len(sq) : sq[k] = x
  THEN CHOOSE k \in 1..Len(sq) : sq[k] = x
  ELSE 0

\* C33: the list() that a cycle took of a tree built from storage holds every
\* path below the root exactly once and not the root; a directory comes
\* before its descendants, siblings come in the order of the listing that
\* inserted them, and the descendants of an entry come before its next
\* sibling.
C33_ListPreOrder ==
  Root \in DOMAIN stats =>
    /\ Range(list) = DOMAIN fs0 \ {Root}
    /\ Len(list) = Cardinality(DOMAIN fs0) - 1
    /\ \A m, n \in 1..Len(list) :
         /\ Descendant(list[n], list[m]) => m < n
         /\ (m < n /\ dirname(list[m]) = dirname(list[n])) =>
              /\ IndexOf(basename(list[m]), readdir(dirname(list[m]), fs0))
                   < IndexOf(basename(list[n]), readdir(dirname(list[n]), fs0))
              /\ \A k \in 1..Len(list) :
                   Descendant(list[k], list[m]) => k < n

\* the list of the full tree
C33_Witness ==
  /\ pc = "expire"
  /\ list = << <<"a">>, <<"a", "b">>, <<"a", "b", "h">>, <<"a", "g">>, <<"f">> >>

(* ------------------------------- C34 ---------------------------------- *)
\* C34: the disk sample of _pressure is taken in the step that starts it,
\* before it has deleted anything; while its loop runs the sample stays as it
\* is, and toFree changes only by the size of the file the iteration popped,
\* whatever the removal did to storage.
C34_DiskSampledOnce ==
  [][/\ disk' # disk =>
          pc = "expire" /\ pc' \in {"pressure", "return"} /\ pdeleted' = <<>>
                        /\ fs' = fs /\ disk' = diskusage(fs)
     /\ pc = "pressure" =>
          /\ disk' = disk
          /\ \/ toFree' = toFree /\ pdeleted' = pdeleted
             \/ /\ pdeleted' = Append(pdeleted, plist[Len(plist)])
                /\ toFree' = toFree - stats[plist[Len(plist)]].size]_vars

\* _pressure has deleted two files and storage no longer matches its sample
C34_Witness ==
  /\ pc = "pressure"
  /\ Len(pdeleted) >= 2
  /\ ~dry
  /\ disk # diskusage(fs)

(* ------------------------------- C35 ---------------------------------- *)
\* the files _pressure deleted, the last one left out
AllButLast(sq) == SubSeq(sq, 1, Len(sq) - 1)

\* C35: once _pressure has deleted a file, the sizes of the files it deleted
\* before the last one add up to strictly less than the initial toFree,
\* (total - available) - total x pressure of its disk sample; while the loop
\* runs toFree is that initial value minus the sizes deleted so far.
C35_NoMoreThanNeeded ==
  (PressureRan /\ pdeleted # <<>>) =>
    /\ TotalSize(AllButLast(pdeleted)) * cfg.pressure.den
         < (disk.total - disk.available) * cfg.pressure.den
             - disk.total * cfg.pressure.num
    /\ toFree * cfg.pressure.den
         = (disk.total - disk.available) * cfg.pressure.den
             - disk.total * cfg.pressure.num
             - TotalSize(pdeleted) * cfg.pressure.den

\* _pressure stopped after two files, the second taking toFree to zero, with
\* a file left in its list
C35_Witness ==
  /\ pc = "return"
  /\ PressureRan
  /\ Len(pdeleted) = 2
  /\ toFree <= 0
  /\ \E k \in 1..Len(plist) : ~stats[plist[k]].isDir

(* ------------------------------- C38 ---------------------------------- *)
\* no value occurs twice in the sequence sq
NoDuplicates(sq) ==
  \A m, n \in 1..Len(sq) : m # n => sq[m] # sq[n]

\* C38: within one cycle no entry is recorded twice by _expire and _pressure
\* together, so the list clean() returns has no entry twice, and no path is
\* passed to unlink or rmdir twice, also when a removal failed.
C38_AtMostOncePerCycle ==
  /\ NoDuplicates(deleted \o pdeleted)
  /\ NoDuplicates(returned)
  /\ NoDuplicates(rmLog)

(* ------------------------------- C39 ---------------------------------- *)
\* _pressure found usage at or above pressure and entered its loop
PressureEntered == PressureRan /\ ~BelowThresholdAtStart

\* C39: every file that was in the tree when _pressure started is still in
\* its list or was deleted by it, whether or not the filter matches it and
\* whatever its age; when the loop ends with toFree still above zero, all of
\* them were deleted.
C39_PressureIgnoresFilter ==
  (PressureEntered /\ pc \in {"pressure", "return"}) =>
    \A k \in 1..Len(pstart.list) :
      LET p == pstart.list[k]
      IN ~stats[p].isDir =>
           /\ p \in Range(plist) \/ p \in Range(pdeleted)
           /\ (pc = "return" /\ toFree > 0) => p \in Range(pdeleted)

\* _pressure deleted a file that _expire had kept because the filter does
\* not match it
C39_Witness ==
  /\ pc = "return"
  /\ PressureEntered
  /\ ~cfg.expire.infinite
  /\ \E p \in Range(pdeleted) :
       /\ ~filterTest(cfg.filter, p)
       /\ p \in Range(list) /\ p \notin Range(deleted)
       /\ ~dry /\ p \notin DOMAIN fs

(* ------------------------------- C40 ---------------------------------- *)
\* C40: a clean() in flight always comes to its end, resolved or rejected,
\* when every call it awaits returns. Each visit of _expire moves the index
\* one entry on within the list taken at the start, each iteration of the
\* loop of _pressure takes one item out of its list, and one delete with its
\* cascade issues at most one removal for the entry and for each of its
\* ancestors up to the root.
C40_CycleTerminates ==
  /\ (pc # "idle") ~> (pc = "idle")
  /\ [][/\ (pc = "expire" /\ pc' = "expire") =>
            i' = i + 1 /\ i <= Len(list) /\ list' = list
        /\ (pc = "pressure" /\ pc' = "pressure") =>
            Len(plist') = Len(plist) - 1
        /\ (pc # "idle" /\ i <= Len(list)) =>
            Len(rmLog') - Len(rmLog) <= Len(list[i]) + 1
        /\ (pc = "pressure" /\ plist # <<>>) =>
            Len(rmLog') - Len(rmLog) <= Len(plist[Len(plist)]) + 1]_vars

\* a cycle ended after _expire visited five entries and _pressure went
\* through its loop
C40_Witness ==
  /\ pc = "idle" /\ outcome = "resolved"
  /\ Len(list) = 5
  /\ pdeleted # <<>>
  /\ Len(rmLog) >= 3

(* ------------------------------- C36 ---------------------------------- *)
\* C36: within one delete() call and its cascade, delete() is entered at most
\* once on every entry, and every child a directory awaits is deleted with
\* keepEmptyParent = true, whatever flag the call was given.
C36_DeleteEnteredOnce ==
  \A p \in DOMAIN task :
    /\ task[p].entered <= 1
    /\ \A k \in 1..Len(task[p].awaited) :
         task[task[p].awaited[k]].keepEmptyParent

\* delete({keepEmptyParent: false}) of "a/b" has resolved: its child "h" was
\* deleted, and the cascade entered the delete() of "a" once
C36_Witness ==
  /\ called.active /\ called.target = <<"a", "b">> /\ ~called.keepEmptyParent
  /\ task[<<"a", "b">>].st = "done"
  /\ task[<<"a", "b">>].awaited = << <<"a", "b", "h">> >>
  /\ task[<<"a", "b", "h">>].entered = 1
  /\ task[<<"a">>].entered = 1
  /\ task[<<"a">>].st = "done"

(* ------------------------------- C37 ---------------------------------- *)
\* following parent links from p reaches the root in at most n steps
RECURSIVE ReachesRoot(_, _)
ReachesRoot(p, n) ==
  IF p = Root THEN TRUE
  ELSE n > 0 /\ p \in DOMAIN parent /\ ReachesRoot(parent[p], n - 1)

\* C37: in every state of a tree that was populated and then subjected to a
\* delete(), every key of an entry's children names an entry whose parent is
\* that entry, whose basename is the key and whose path is the entry's path
\* joined with the key; no key occurs twice; the root alone has no parent;
\* and parent links lead from every entry still a key of its parent to the
\* root within as many steps as there are entries.
C37_TreeStructure ==
  /\ DOMAIN parent = DOMAIN children \ {Root}
  /\ \A p \in DOMAIN children :
       \A k \in 1..Len(children[p]) :
         LET key == children[p][k]
             c == join(p, key)
         IN /\ c \in DOMAIN parent
            /\ parent[c] = p
            /\ basename(c) = key
            /\ c = join(parent[c], basename(c))
            /\ \A j \in 1..Len(children[p]) : j # k => children[p][j] # key
            /\ ReachesRoot(c, Cardinality(DOMAIN children))

\* in the full tree, delete() has detached "a/g", and "a/b/h" is still a key
\* of "a/b"
C37_Witness ==
  /\ called.active
  /\ DOMAIN parent = DirPaths \cup FilePaths
  /\ children[<<"a">>] = <<"b">>
  /\ children[<<"a", "b">>] = <<"h">>

(* ------------------------------- C32 ---------------------------------- *)
\* C32: a directory whose listing failed when the tree was built is never
\* recorded by _expire or _pressure, never returned by clean(), never passed
\* to rmdir and never detached from its parent, removeEmptyDirs or not.
C32_ListFailureInert ==
  \A p \in listFailing \ {Root} :
    /\ p \notin Range(deleted \o pdeleted)
    /\ p \notin Range(returned)
    /\ p \notin Range(rmLog)
    /\ p \in DOMAIN stats => Attached(p)

(* ------------------------------- C31 ---------------------------------- *)
\* a stat or listing on the way from the root to q fails
Unreachable(q) ==
  \/ q \in statFailing
  \/ \E a \in DOMAIN fs : Descendant(q, a) /\ a \in statFailing \cup listFailing

\* C31: when the populate() of an entry has returned, the populate() of
\* every entry constructed below it has returned, in whatever order the
\* stats and listings settle; and when the populate() of the root has
\* returned, every stored path that no failing stat or listing cuts off has
\* its metadata and is a key of its parent, the tree being the one a
\* populate() run child by child builds.
C31_PopulateJoinsChildren ==
  /\ \A p \in DOMAIN ptask :
       ptask[p] = "done" =>
         \A q \in DOMAIN ptask : Descendant(q, p) => ptask[q] = "done"
  /\ (Root \in DOMAIN ptask /\ ptask[Root] = "done") =>
       /\ \A q \in DOMAIN fs \ {Root} :
            ~Unreachable(q) => q \in DOMAIN stats /\ Attached(q)
       /\ LET t == populate(Root, fs, [stats |-> EmptyFn, children |-> EmptyFn])
          IN stats = t.stats /\ children = t.children

\* list() has resolved: the stat of "a/g" failed, its sibling subtree "a/b"
\* with "a/b/h" is in the tree
C31_Witness ==
  /\ Root \in DOMAIN ptask /\ ptask[Root] = "done"
  /\ statFailing = {<<"a", "g">>}
  /\ <<"a", "g">> \notin DOMAIN stats
  /\ <<"a", "b", "h">> \in DOMAIN stats
  /\ children[<<"a">>] = <<"b", "g">>

====
